---- MODULE Spec2Model ----
(***************************************************************************)
(* Verification model of agent-starter-pack:                               *)
(*   - the remote template fetcher  (src/src/cli/commands/list.py)         *)
(*   - the Makefile validator       (src/tests/integration/                *)
(*                                   test_makefile_usability.py)           *)
(* Python strings are modelled as tuples of one-character strings, so that *)
(* prefix tests, substring tests, the target regex and the code-point      *)
(* ordering used by sorted() are computed and not assumed.  Fixed message  *)
(* texts that are never inspected character by character are kept as a     *)
(* one-element tuple holding the whole text.                               *)
(***************************************************************************)
EXTENDS Integers, Sequences, FiniteSets, TLC

VARIABLES
    \* ---- fetch_adk_templates ----
    fpc,          \* position in fetch_adk_templates
    tempExists,   \* the TemporaryDirectory exists on disk
    cloned,       \* how the git clone ended: pending | ok | nonzero | no_git
    agentsDir,    \* what repo/python/agents is in the clone: absent | file | dir
    entries,      \* folder name -> entry of python/agents
    scanned,      \* entries already produced by iterdir()
    opened,       \* config files opened: <<folder name, "primary" | "legacy">>
    templates,    \* the local list `templates`
    warnings,     \* number of logging.warning calls
    errors,       \* number of logging.error calls
    result,       \* the returned list, NoResult until the function returns
    fraised,      \* an exception left fetch_adk_templates
    \* ---- validate_makefile_usability ----
    vpc,          \* position in validate_makefile_usability
    makefile,     \* NoFile or the Makefile text, a sequence of lines
    otherFile,    \* the text of another output file of the rendered project
    broken,       \* targets whose `make --dry-run <target>` exits non-zero
    syntaxExit,   \* exit status of `make --dry-run --print-data-base`, -1 before
    makefileTargets, \* the local list `makefile_targets`
    todo,         \* what the loop of line 120 has still to iterate: target -> times
    log,          \* the external operations performed, in order
    status,       \* running | passed | failed
    error,        \* the exception re-raised to the caller, NoError if none
    \* ---- GeminiSession (server.py) ----
    now,          \* the event loop's clock, in milliseconds
    lastModelTime,   \* self.last_model_message_time, in milliseconds
    tokenCount,   \* self.last_audio_token_count
    runId,        \* self.run_id
    userId,       \* self.user_id
    sessionOpen,  \* the model session's websocket is open
    cpc,          \* receive_from_client: start | receiving | exited
    cexit,        \* the exception that ended receive_from_client's loop
    lastMsg,      \* the last value receive_json() returned
    rcvCount,     \* number of values receive_json() returned
    fwdCount,     \* number of client messages sent on to the model session
    lastFwd,      \* the last text sent on to the model session
    unexpected,   \* number of "unexpected input" warnings (line 65)
    tpc,          \* send_continue_prompt: none | ready | sleeping | sending | stopped
    waitCount,    \* the audio token count read at line 98 for the current wait
    sleepUntil,   \* when the current asyncio.sleep is over
    cancelRequested, \* timer_task.cancel() has been called
    prompts,      \* number of 'continue' prompts sent to the model session
    gpc,          \* receive_from_gemini: running | raised
    pendingReport, \* history: the last audio count the model reported, and
                  \* whether a wait has begun since
    \* ---- connect_and_run under its retry wrapper (server.py) ----
    tries,        \* attempts started so far
    rpc,          \* the wrapper: idle | running | waiting | raised | returned
    ends,         \* what each ended attempt ended with, in order
    retryMsgs,    \* 'retrying' status messages sent to the client
    raised,       \* the exception that left the wrapper, "none" if none
    clientOpen,   \* the client's websocket is open
    curClient,    \* the running attempt's receive_from_client: none | alive | exited
    curGemini,    \* the running attempt's receive_from_gemini: none | running | returned
    staleClients, \* receive_from_client loops of ended attempts still alive
    timers,       \* timer tasks that have not stopped
    cancelPending, \* timer tasks cancelled but not yet stopped
    \* ---- _handle_tool_call (server.py) ----
    toolCall,     \* the tool call being handled
    toolpc,       \* its task: idle | running | done | raised
    handled,      \* function calls the loop has passed
    responses     \* the function responses sent to the session, in order

fetchVars == <<fpc, tempExists, cloned, agentsDir, entries, scanned, opened, templates,
               warnings, errors, result, fraised>>
valVars == <<vpc, makefile, otherFile, broken, syntaxExit, makefileTargets,
             todo, log, status, error>>
sessVars == <<now, lastModelTime, tokenCount, runId, userId, sessionOpen, cpc,
              cexit, lastMsg, rcvCount, fwdCount, lastFwd, unexpected, tpc,
              waitCount, sleepUntil, cancelRequested, prompts, gpc,
              pendingReport>>
retryVars == <<tries, rpc, ends, retryMsgs, raised, clientOpen, curClient,
               curGemini, staleClients, timers, cancelPending>>
toolVars == <<toolCall, toolpc, handled, responses>>
relayVars == <<sessVars, retryVars, toolVars>>
notFetch == <<valVars, relayVars>>
notVal == <<fetchVars, relayVars>>
notRelay == <<fetchVars, valVars>>
vars == <<fetchVars, valVars, relayVars>>

\* ------------------------------------------------------------------ bounds
MaxEntries == 3
MaxLines == 3
MaxClientMsgs == 2
MaxTicks == 4
MaxCalls == 2

\* ----------------------------------------------------------------- strings
\* Unicode code points of the characters the model uses (Python compares and
\* sorts str by code point).
Ord(c) ==
    CASE c = "\t" -> 9   [] c = " " -> 32  [] c = "%" -> 37  [] c = "-" -> 45
      [] c = "." -> 46   [] c = "1" -> 49  [] c = ":" -> 58  [] c = "=" -> 61
      [] c = "B" -> 66   [] c = "F" -> 70  [] c = "H" -> 72  [] c = "L" -> 76
      [] c = "N" -> 78
      [] c = "O" -> 79   [] c = "P" -> 80  [] c = "Y" -> 89  [] c = "_" -> 95
      [] c = "a" -> 97   [] c = "b" -> 98  [] c = "c" -> 99  [] c = "d" -> 100
      [] c = "e" -> 101  [] c = "i" -> 105 [] c = "l" -> 108 [] c = "n" -> 110
      [] c = "o" -> 111  [] c = "s" -> 115 [] c = "t" -> 116 [] c = "x" -> 120
      [] c = "{" -> 123  [] c = "}" -> 125

\* str.__lt__: lexicographic by code point, a proper prefix is smaller.
RECURSIVE StrLess(_, _)
StrLess(a, b) ==
    IF b = <<>> THEN FALSE
    ELSE IF a = <<>> THEN TRUE
    ELSE IF Ord(Head(a)) < Ord(Head(b)) THEN TRUE
    ELSE IF Ord(Head(a)) > Ord(Head(b)) THEN FALSE
    ELSE StrLess(Tail(a), Tail(b))

\* =========================================================================
\*  Remote Template Fetcher: fetch_adk_templates (list.py:110-184)
\* =========================================================================

\* ------------------------------------------------------ the cloned tree
Absent == "ABSENT"

\* Names of the entries python/agents may hold.
FolderNames == { <<"a">>, <<"B">>, <<"a", "b">>, <<"b">> }

\* Contents a template config file may have (the file's text, by case).
PrimaryTexts == {"P_FULL", "P_NO_NAME", "BAD", "SCALAR", "EMPTY"}
LegacyTexts == {"L_NO_DESC", "BAD"}

\* An entry of python/agents: a plain file, or a folder with its two
\* candidate config files (.template/template_config.yaml, .templateconfig.yaml).
EntryKinds ==
    { [isDir |-> FALSE, primary |-> Absent, legacy |-> Absent] }
    \cup [isDir : {TRUE}, primary : PrimaryTexts \cup {Absent}, legacy : {Absent}]
    \cup [isDir : {TRUE}, primary : {Absent}, legacy : LegacyTexts]
    \cup { [isDir |-> TRUE, primary |-> "P_FULL", legacy |-> "BAD"],
           [isDir |-> TRUE, primary |-> "BAD", legacy |-> "L_NO_DESC"],
           [isDir |-> TRUE, primary |-> "P_FULL", legacy |-> "L_NO_DESC"] }

Trees ==
    UNION { [S -> EntryKinds] :
            S \in {T \in SUBSET FolderNames : Cardinality(T) <= MaxEntries} }

EmptyTree == [n \in {} |-> Absent]

\* ------------------------------------------------------------ collaborators
\* yaml.safe_load on the text of a config file: the parsed value, or the
\* exception it raises.
yaml_safe_load(text) ==
    CASE text = "P_FULL" ->
           [exc |-> "none", kind |-> "dict",
            items |-> [k \in {"name", "description", "example_question"} |->
                         CASE k = "name" -> <<"P">>
                           [] k = "description" -> <<"primary description">>
                           [] k = "example_question" -> <<"primary question">>]]
      [] text = "P_NO_NAME" ->
           [exc |-> "none", kind |-> "dict",
            items |-> [k \in {"description"} |-> <<"primary description">>]]
      [] text = "L_NO_DESC" ->
           [exc |-> "none", kind |-> "dict",
            items |-> [k \in {"name"} |-> <<"L">>]]
      [] text = "SCALAR" -> [exc |-> "none", kind |-> "str"]
      [] text = "EMPTY" -> [exc |-> "none", kind |-> "NoneType"]
      [] text = "BAD" -> [exc |-> "YAMLError"]

\* config.get(key, default); only dict has .get
dict_get(config, key, default) ==
    IF key \in DOMAIN config.items THEN config.items[key] ELSE default

\* subprocess.run(clone_cmd, capture_output=True, text=True, check=...)
subprocess_run(outcome, check) ==
    CASE outcome = "no_git" -> [exc |-> "FileNotFoundError"]
      [] outcome = "nonzero" ->
           IF check THEN [exc |-> "CalledProcessError"]
           ELSE [exc |-> "none", returncode |-> 128]
      [] outcome = "ok" -> [exc |-> "none", returncode |-> 0]

CloneOutcomes == {"ok", "nonzero", "no_git"}

\* ------------------------------------------------------------- the scan
\* Variant of ConfigPath: the legacy path is preferred.
LegacyFirst(e) == IF e.legacy # Absent THEN "legacy" ELSE "primary"

\* lines 151-154: the primary path, the legacy one if the primary is absent
ConfigPath(e) == IF e.primary # Absent THEN "primary" ELSE "legacy"

ConfigText(e) == IF ConfigPath(e) = "primary" THEN e.primary ELSE e.legacy

\* line 156
ConfigExists(e) == ConfigText(e) # Absent

NoDescription == <<"No description available">>

\* Variant of TemplateInfo: the identifier is taken from the config's name.
TemplateInfoNamedByConfig(name, config) ==
    [name |-> dict_get(config, "name", name),
     display_name |-> dict_get(config, "name", name),
     description |-> dict_get(config, "description", NoDescription),
     example_question |-> dict_get(config, "example_question", <<>>)]

\* lines 161-168
TemplateInfo(name, config) ==
    [name |-> name,
     display_name |-> dict_get(config, "name", name),
     description |-> dict_get(config, "description", NoDescription),
     example_question |-> dict_get(config, "example_question", <<>>)]

\* lines 157-175: the body of the inner try; exc is what the inner except caught
ReadConfig(name, e) ==
    LET loaded == yaml_safe_load(ConfigText(e)) IN
    IF loaded.exc # "none" THEN [exc |-> loaded.exc]
    ELSE IF loaded.kind # "dict" THEN [exc |-> "AttributeError"]
    ELSE [exc |-> "none", info |-> TemplateInfo(name, loaded)]

\* sorted(templates, key=lambda x: x["name"]): stable, ascending by key
RECURSIVE InsertByName(_, _)
InsertByName(sortedSeq, x) ==
    IF sortedSeq = <<>> THEN <<x>>
    ELSE IF StrLess(x.name, Head(sortedSeq).name) THEN <<x>> \o sortedSeq
    ELSE <<Head(sortedSeq)>> \o InsertByName(Tail(sortedSeq), x)

\* Variant of SortedByName: the list is returned in scan order.
Unsorted(s) == s

RECURSIVE SortedByName(_)
SortedByName(s) ==
    IF s = <<>> THEN <<>>
    ELSE InsertByName(SortedByName(SubSeq(s, 1, Len(s) - 1)), s[Len(s)])

\* --------------------------------------------------------- leaving the with
\* TemporaryDirectory.__exit__ (line 114): whether the directory still exists
\* once the with block has been left.
\* Variant of ExitTempDir: the directory is not removed on exit.
LeakTempDir == tempExists

ExitTempDir == FALSE

\* Variant of OuterHandles: only the CalledProcessError clause.
HandlesGitErrorOnly(exc) == exc = "CalledProcessError"

\* lines 177-182: `except subprocess.CalledProcessError` and `except Exception`
OuterHandles(exc) ==
    exc = "CalledProcessError"
    \/ exc \in {"FileNotFoundError", "NotADirectoryError"}

\* `return value` from inside or after the with block
Return(value) ==
    /\ fpc' = "returned"
    /\ result' = value
    /\ tempExists' = ExitTempDir
    /\ fraised' = FALSE

\* an exception raised inside the outer try
Leave(exc) ==
    IF OuterHandles(exc)
    THEN /\ errors' = errors + 1
         /\ Return(<<>>)
    ELSE /\ errors' = errors
         /\ fpc' = "returned"
         /\ result' = <<>>
         /\ tempExists' = ExitTempDir
         /\ fraised' = TRUE

\* ---------------------------------------------------------------- actions
\* line 112-115: templates = []; with tempfile.TemporaryDirectory() as temp_dir
FetchEnter ==
    /\ fpc = "start"
    /\ fpc' = "clone"
    /\ tempExists' = TRUE
    /\ templates' = <<>>
    /\ UNCHANGED <<cloned, agentsDir, entries, scanned, opened, warnings, errors,
                   result, fraised>>
    /\ UNCHANGED notFetch

\* lines 119-136: the shallow clone
Clone ==
    /\ fpc = "clone"
    /\ \E outcome \in CloneOutcomes :
         LET r == subprocess_run(outcome, TRUE) IN
         /\ cloned' = outcome
         /\ IF r.exc # "none"
            THEN /\ Leave(r.exc)
                 /\ UNCHANGED <<agentsDir, entries>>
            ELSE IF r.returncode # 0
            THEN /\ errors' = errors + 1
                 /\ Return(<<>>)
                 /\ UNCHANGED <<agentsDir, entries>>
            ELSE /\ \E kind \in {"absent", "file", "dir"} :
                      /\ agentsDir' = kind
                      /\ IF kind = "dir"
                         THEN entries' \in Trees
                         ELSE entries' = EmptyTree
                 /\ fpc' = "agents"
                 /\ UNCHANGED <<tempExists, errors, result, fraised>>
    /\ UNCHANGED <<scanned, opened, templates, warnings>>
    /\ UNCHANGED notFetch

\* lines 139-143: agents_dir.exists()
CheckAgentsDir ==
    /\ fpc = "agents"
    /\ IF agentsDir = "absent"
       THEN /\ warnings' = warnings + 1
            /\ Return(<<>>)
       ELSE /\ fpc' = "scan"
            /\ UNCHANGED <<warnings, result, tempExists, fraised>>
    /\ UNCHANGED <<cloned, agentsDir, entries, scanned, opened, templates, errors>>
    /\ UNCHANGED notFetch

\* line 146 when python/agents is not a directory: iterdir() raises
IterdirFails ==
    /\ fpc = "scan"
    /\ agentsDir = "file"
    /\ Leave("NotADirectoryError")
    /\ UNCHANGED <<cloned, agentsDir, entries, scanned, opened, templates, warnings>>
    /\ UNCHANGED notFetch

\* lines 146-175: one iteration of the loop, for the entry iterdir() yields
\* next (in no particular order)
ScanEntry ==
    /\ fpc = "scan"
    /\ agentsDir = "dir"
    /\ \E n \in (DOMAIN entries) \ scanned :
         LET e == entries[n] IN
         /\ scanned' = scanned \cup {n}
         /\ IF ~e.isDir \/ ~ConfigExists(e)
            THEN UNCHANGED <<opened, templates, warnings>>
            ELSE LET r == ReadConfig(n, e) IN
                 /\ opened' = opened \cup {<<n, ConfigPath(e)>>}
                 /\ IF r.exc = "none"
                    THEN /\ templates' = Append(templates, r.info)
                         /\ warnings' = warnings
                    ELSE /\ warnings' = warnings + 1
                         /\ templates' = templates
    /\ UNCHANGED <<fpc, tempExists, cloned, agentsDir, entries, errors, result,
                   fraised>>
    /\ UNCHANGED notFetch

\* line 184: the loop is exhausted, the with block is left, the list is sorted
ScanDone ==
    /\ fpc = "scan"
    /\ agentsDir = "dir"
    /\ scanned = DOMAIN entries
    /\ Return(SortedByName(templates))
    /\ UNCHANGED <<cloned, agentsDir, entries, scanned, opened, templates, warnings,
                   errors>>
    /\ UNCHANGED notFetch

FetchNext ==
    \/ FetchEnter
    \/ Clone
    \/ CheckAgentsDir
    \/ IterdirFails
    \/ ScanEntry
    \/ ScanDone

InitFetch ==
    /\ fpc = "start"
    /\ tempExists = FALSE
    /\ cloned = "pending"
    /\ agentsDir = "absent"
    /\ entries = EmptyTree
    /\ scanned = {}
    /\ opened = {}
    /\ templates = <<>>
    /\ warnings = 0
    /\ errors = 0
    /\ result = <<>>
    /\ fraised = FALSE

\* ------------------------------------------------------- fetcher claims
\* The config file a folder's descriptor is read from, stated on the tree.
EffectiveText(e) == IF e.primary # Absent THEN e.primary ELSE e.legacy

WellFormedTexts == {"P_FULL", "P_NO_NAME", "L_NO_DESC"}
MalformedTexts == {"BAD", "SCALAR", "EMPTY"}

WellFormedFolders ==
    {n \in DOMAIN entries :
       entries[n].isDir /\ EffectiveText(entries[n]) \in WellFormedTexts}
MalformedFolders ==
    {n \in DOMAIN entries :
       entries[n].isDir /\ EffectiveText(entries[n]) \in MalformedTexts}

ResultNames == {result[i].name : i \in 1..Len(result)}

\* C1: fetch_adk_templates never raises; when the clone fails (non-zero
\* exit, git missing) or the clone has no python/agents, or python/agents
\* cannot be listed, it returns the empty list.
C1_NeverRaises ==
    fpc = "returned" =>
        /\ ~fraised
        /\ (cloned \in {"nonzero", "no_git"} \/ agentsDir # "dir")
               => result = <<>>

C1_Witness ==
    /\ fpc = "returned"
    /\ cloned = "no_git"
    /\ result = <<>>
    /\ ~fraised

\* C2: after a successful clone whose python/agents holds N folders with a
\* well-formed config and M with a malformed one, whatever the iteration
\* order, the function returns exactly the N descriptors in strictly
\* ascending order of identifier, has logged exactly M warnings, has not
\* raised, and has scanned every entry.
C2_ScanResult ==
    (fpc = "returned" /\ cloned = "ok" /\ agentsDir = "dir") =>
        /\ ~fraised
        /\ scanned = DOMAIN entries
        /\ Len(result) = Cardinality(WellFormedFolders)
        /\ ResultNames = WellFormedFolders
        /\ \A i \in 1..Len(result) : \A j \in 1..Len(result) :
               i < j => StrLess(result[i].name, result[j].name)
        /\ warnings = Cardinality(MalformedFolders)

\* two descriptors appended out of order, one malformed folder, then returned
C2_Witness ==
    /\ fpc = "returned"
    /\ cloned = "ok"
    /\ agentsDir = "dir"
    /\ Len(result) = 2
    /\ templates # result
    /\ warnings = 1

\* C3: on every exit path the temporary workspace no longer exists once the
\* function has returned.
C3_WorkspaceRemoved == fpc = "returned" => ~tempExists

\* the unexpected-exception path: python/agents exists but cannot be listed
C3_Witness ==
    /\ fpc = "returned"
    /\ cloned = "ok"
    /\ agentsDir = "file"
    /\ errors = 1
    /\ ~tempExists

TemplateNames == {templates[i].name : i \in 1..Len(templates)}

\* C13: a folder's config is opened at .template/template_config.yaml when
\* that file exists and at .templateconfig.yaml only when the primary file
\* is absent; a folder with neither file is not opened, yields no descriptor
\* and no warning (warnings come only from the file that was opened).
C13_PrimaryThenLegacy ==
    /\ \A n \in scanned :
         LET e == entries[n] IN
         /\ e.primary # Absent =>
              (<<n, "primary">> \in opened /\ <<n, "legacy">> \notin opened)
         /\ (e.primary = Absent /\ e.legacy # Absent) =>
              (<<n, "legacy">> \in opened /\ <<n, "primary">> \notin opened)
         /\ (e.primary = Absent /\ e.legacy = Absent) =>
              /\ <<n, "primary">> \notin opened
              /\ <<n, "legacy">> \notin opened
              /\ n \notin TemplateNames
    /\ \A o \in opened : o[1] \in scanned
    /\ agentsDir = "dir" =>
         warnings = Cardinality(
           {o \in opened :
              (IF o[2] = "primary" THEN entries[o[1]].primary
               ELSE entries[o[1]].legacy) \in MalformedTexts})

\* one folder with both files, one with the legacy file only, one with none
C13_Witness ==
    /\ fpc = "returned"
    /\ \E a \in scanned : \E b \in scanned : \E c \in scanned :
         /\ entries[a].primary # Absent /\ entries[a].legacy # Absent
         /\ <<a, "primary">> \in opened
         /\ entries[b].primary = Absent /\ <<b, "legacy">> \in opened
         /\ entries[c].isDir
         /\ entries[c].primary = Absent /\ entries[c].legacy = Absent
    /\ Len(result) = 2
    /\ warnings = 0

\* C14: every descriptor returned carries the name of its folder as
\* identifier whatever the config says, the config's 'name' as display name
\* (the folder name when the key is absent) and the config's 'description'
\* ('No description available' when the key is absent).
C14_DescriptorFields ==
    (fpc = "returned" /\ cloned = "ok" /\ agentsDir = "dir") =>
      /\ \A n \in WellFormedFolders : \E i \in 1..Len(result) : result[i].name = n
      /\ \A i \in 1..Len(result) :
           LET d == result[i] IN
           /\ d.name \in WellFormedFolders
           /\ LET config == yaml_safe_load(EffectiveText(entries[d.name])).items IN
              /\ d.display_name =
                   (IF "name" \in DOMAIN config THEN config["name"] ELSE d.name)
              /\ d.description =
                   (IF "description" \in DOMAIN config THEN config["description"]
                    ELSE <<"No description available">>)

\* a config without 'name', one without 'description', one naming itself
\* differently from its folder
C14_Witness ==
    /\ fpc = "returned"
    /\ Len(result) = 3
    /\ \E i \in 1..3 : result[i].display_name = result[i].name
    /\ \E i \in 1..3 : result[i].description = <<"No description available">>
    /\ \E i \in 1..3 : result[i].display_name = <<"P">>

\* =========================================================================
\*  Project Validator: validate_makefile_usability
\*  (test_makefile_usability.py:30-145)
\* =========================================================================
NoFile == << <<"<no file>">> >>
NoError == [type |-> "none", detail |-> "none", target |-> <<>>]

\* --------------------------------------------------------- rendered projects
\* Lines a rendered Makefile may hold (L_phony, L_pattern and L_all only in
\* the example below).
L_install == <<"i", "n", "s", "t", "a", "l", "l", ":">>
L_test == <<"t", "e", "s", "t", ":">>
L_phony == <<".", "P", "H", "O", "N", "Y", ":">>
L_pattern == <<"%", ".", "o", ":">>
L_all == <<"a", "l", "l", ":">>
L_distclean == <<"d", "i", "s", "t", "c", "l", "e", "a", "n", ":">>
L_assign == <<"F", "O", "O", ":", "=", "x">>
L_recipe == <<"\t", "{", "{", "x", "}", "}">>
L_dotted == <<"a", ".", "b", ":">>
L_dashed == <<"a", "-", "b", "_", "1", ":", " ", "x">>
L_closing == <<"x", "}", "}">>

LinePool ==
    {L_install, L_test, L_distclean, L_assign, L_recipe, L_dotted, L_dashed,
     L_closing}

\* The Makefile of the specification's extraction example.
ExampleMakefile == <<L_install, L_test, L_phony, L_pattern, L_all>>

Makefiles ==
    {ExampleMakefile}
    \cup UNION { [1..n -> LinePool] : n \in 0..MaxLines }

\* Another output file of the rendered project, without and with a marker.
OtherFiles == { << <<"o", "k">> >>, << <<"{", "{", "x", "}", "}">> >> }

\* Targets whose per-target dry-run may exit non-zero.
BreakableTargets == { <<"i", "n", "s", "t", "a", "l", "l">>, <<"t", "e", "s", "t">>, <<"F", "O", "O">> }

\* Exit statuses of the external commands (make exits 0, 1 or 2).
ExitCodes == {0, 2}

\* ------------------------------------------------------------ collaborators
\* tests.integration.utils.run_command: raises CalledProcessError when the
\* command exits non-zero.
run_command(exit) == IF exit # 0 THEN "CalledProcessError" ELSE "none"

\* ---------------------------------------------------------------- the checks
\* Variant of MakefileExists: the existence check is missing.
AssumedToExist(mf) == TRUE

\* line 71: makefile_path.exists()
MakefileExists(mf) == mf # NoFile

\* `needle in content`, content being lines joined by newlines and the needle
\* holding no newline
Contains(content, needle) ==
    \E l \in 1..Len(content) :
      \E p \in 1..(Len(content[l]) - Len(needle) + 1) :
        SubSeq(content[l], p, p + Len(needle) - 1) = needle

\* Variant of HasPlaceholder: only the opening marker is looked for.
HasOpeningMarker(content) == Contains(content, <<"{", "{">>)

\* Variant of HasPlaceholder: the scan is missing.
NoPlaceholderScan(content) == FALSE

\* line 77: "{{" in content or "}}" in content
HasPlaceholder(content) ==
    Contains(content, <<"{", "{">>) \/ Contains(content, <<"}", "}">>)

\* ------------------------------------------------------ target extraction
Lower == {"a", "b", "c", "d", "e", "f", "g", "h", "i", "j", "k", "l", "m",
          "n", "o", "p", "q", "r", "s", "t", "u", "v", "w", "x", "y", "z"}
Upper == {"A", "B", "C", "D", "E", "F", "G", "H", "I", "J", "K", "L", "M",
          "N", "O", "P", "Q", "R", "S", "T", "U", "V", "W", "X", "Y", "Z"}
Digits == {"0", "1", "2", "3", "4", "5", "6", "7", "8", "9"}

\* the character class [a-zA-Z0-9_-]
InClass(c) == c \in Lower \cup Upper \cup Digits \cup {"_", "-"}

SetMax(S) == CHOOSE x \in S : \A y \in S : y <= x

\* ^([a-zA-Z0-9_-]+): at the start of one line: the group, <<>> if the line
\* does not match (the group itself is never empty)
MatchLine(line) ==
    LET K == {k \in 1..(Len(line) - 1) :
                /\ \A i \in 1..k : InClass(line[i])
                /\ line[k + 1] = ":"}
    IN IF K = {} THEN <<>> ELSE SubSeq(line, 1, SetMax(K))

\* lines 105-106: re.findall(target_pattern, makefile_content, re.MULTILINE)
RECURSIVE FindAll(_)
FindAll(content) ==
    IF content = <<>> THEN <<>>
    ELSE (IF MatchLine(Head(content)) = <<>> THEN <<>>
          ELSE <<MatchLine(Head(content))>>)
         \o FindAll(Tail(content))

Name_all == <<"a", "l", "l">>
Name_clean == <<"c", "l", "e", "a", "n">>
Name_distclean == <<"d", "i", "s", "t", "c", "l", "e", "a", "n">>

\* Variant of KeepTarget: the common implicit targets are not dropped.
KeepImplicit(target) ==
    /\ target # <<>>
    /\ Head(target) # "."
    /\ \A i \in 1..Len(target) : target[i] # "%"

\* lines 110-116: the filter of the matches
KeepTarget(target) ==
    /\ target # <<>>
    /\ Head(target) # "."
    /\ \A i \in 1..Len(target) : target[i] # "%"
    /\ target \notin {Name_all, Name_clean, Name_distclean}

\* lines 109-117
FilterTargets(matches) == SelectSeq(matches, KeepTarget)

\* Variant of TargetSet: the last extracted target is left out.
AllButLast(targets) == [t \in {targets[i] : i \in 1..(Len(targets) - 1)} |-> 1]

\* Variant of TargetSet: the list itself is iterated, duplicates included.
WithDuplicates(targets) ==
    [t \in {targets[i] : i \in 1..Len(targets)} |->
       Cardinality({i \in 1..Len(targets) : targets[i] = t})]

\* line 120: set(makefile_targets), as the elements the loop iterates and how
\* many times each (once: a set holds no duplicates)
TargetSet(targets) == [t \in {targets[i] : i \in 1..Len(targets)} |-> 1]

NoTargets == [t \in {} |-> 1]

\* ------------------------------------------------------ exception handlers
\* lines 89-97: what the handler of a failed syntax dry-run raises
SyntaxExcept ==
    [type |-> "ValueError", detail |-> "syntax", target |-> <<>>]

\* Variant of TargetExcept: the handler logs and goes on to the next target.
TargetExceptSwallowed(target) == NoError

\* Variant of TargetExcept: the message names the first extracted target.
TargetExceptNamesFirst(target) ==
    [type |-> "ValueError", detail |-> "target", target |-> makefileTargets[1]]

\* lines 127-135: what the handler of a failed target dry-run raises
TargetExcept(target) ==
    [type |-> "ValueError", detail |-> "target", target |-> target]

\* lines 141-145: the outer handler prints the error and re-raises it
Fail(exc) ==
    /\ status' = "failed"
    /\ error' = exc
    /\ vpc' = "done"

Event(what, target, ok) == [what |-> what, target |-> target, ok |-> ok]

\* ---------------------------------------------------------------- actions
\* lines 41-68: the project is templated by the create command
CreateProject ==
    /\ vpc = "start"
    /\ \E exit \in ExitCodes :
         /\ log' = Append(log, Event("create", <<>>, exit = 0))
         /\ IF run_command(exit) # "none"
            THEN /\ Fail([type |-> run_command(exit), detail |-> "create",
                          target |-> <<>>])
                 /\ UNCHANGED <<makefile, otherFile, broken>>
            ELSE /\ makefile' \in Makefiles \cup {NoFile}
                 /\ otherFile' \in OtherFiles
                 /\ broken' \in SUBSET BreakableTargets
                 /\ vpc' = "locate"
                 /\ UNCHANGED <<status, error>>
    /\ UNCHANGED <<syntaxExit, makefileTargets, todo>>
    /\ UNCHANGED notVal

\* lines 70-72
LocateMakefile ==
    /\ vpc = "locate"
    /\ log' = Append(log, Event("exists", <<>>, MakefileExists(makefile)))
    /\ IF ~MakefileExists(makefile)
       THEN Fail([type |-> "FileNotFoundError", detail |-> "missing",
                  target |-> <<>>])
       ELSE /\ vpc' = "scan"
            /\ UNCHANGED <<status, error>>
    /\ UNCHANGED <<makefile, otherFile, broken, syntaxExit, makefileTargets, todo>>
    /\ UNCHANGED notVal

\* lines 75-80; open() of a missing file raises FileNotFoundError
ScanPlaceholders ==
    /\ vpc = "scan"
    /\ IF makefile = NoFile
       THEN /\ log' = Append(log, Event("scan", <<>>, FALSE))
            /\ Fail([type |-> "FileNotFoundError", detail |-> "open",
                     target |-> <<>>])
       ELSE /\ log' = Append(log, Event("scan", <<>>, ~HasPlaceholder(makefile)))
            /\ IF HasPlaceholder(makefile)
               THEN Fail([type |-> "ValueError", detail |-> "placeholder",
                          target |-> <<>>])
               ELSE /\ vpc' = "syntax"
                    /\ UNCHANGED <<status, error>>
    /\ UNCHANGED <<makefile, otherFile, broken, syntaxExit, makefileTargets, todo>>
    /\ UNCHANGED notVal

\* lines 83-97: make --dry-run --print-data-base
CheckSyntax ==
    /\ vpc = "syntax"
    /\ \E exit \in ExitCodes :
         /\ syntaxExit' = exit
         /\ log' = Append(log, Event("make_syntax", <<>>, exit = 0))
         /\ IF run_command(exit) = "CalledProcessError"
            THEN Fail(SyntaxExcept)
            ELSE /\ vpc' = "extract"
                 /\ UNCHANGED <<status, error>>
    /\ UNCHANGED <<makefile, otherFile, broken, makefileTargets, todo>>
    /\ UNCHANGED notVal

\* lines 99-117, and the set built at line 120
ExtractTargets ==
    /\ vpc = "extract"
    /\ makefileTargets' = FilterTargets(FindAll(makefile))
    /\ todo' = TargetSet(makefileTargets')
    /\ vpc' = "targets"
    /\ UNCHANGED <<makefile, otherFile, broken, syntaxExit, log, status, error>>
    /\ UNCHANGED notVal

\* lines 120-135: one iteration of the loop over the set, in no particular
\* order: make --dry-run <target>
DryRunTarget ==
    /\ vpc = "targets"
    /\ \E target \in DOMAIN todo :
         LET exit == IF target \in broken THEN 2 ELSE 0 IN
         /\ log' = Append(log, Event("make_target", target, exit = 0))
         /\ todo' = IF todo[target] > 1
                    THEN [todo EXCEPT ![target] = @ - 1]
                    ELSE [t \in (DOMAIN todo) \ {target} |-> todo[t]]
         /\ IF run_command(exit) = "CalledProcessError"
               /\ TargetExcept(target) # NoError
            THEN Fail(TargetExcept(target))
            ELSE UNCHANGED <<vpc, status, error>>
    /\ UNCHANGED <<makefile, otherFile, broken, syntaxExit, makefileTargets>>
    /\ UNCHANGED notVal

\* lines 137-139: the loop is exhausted
ReportPassed ==
    /\ vpc = "targets"
    /\ DOMAIN todo = {}
    /\ status' = "passed"
    /\ vpc' = "done"
    /\ UNCHANGED <<makefile, otherFile, broken, syntaxExit, makefileTargets, todo,
                   log, error>>
    /\ UNCHANGED notVal

ValNext ==
    \/ CreateProject
    \/ LocateMakefile
    \/ ScanPlaceholders
    \/ CheckSyntax
    \/ ExtractTargets
    \/ DryRunTarget
    \/ ReportPassed

InitVal ==
    /\ vpc = "start"
    /\ makefile = NoFile
    /\ otherFile = <<>>
    /\ broken = {}
    /\ syntaxExit = -1
    /\ makefileTargets = <<>>
    /\ todo = NoTargets
    /\ log = <<>>
    /\ status = "running"
    /\ error = NoError

\* ------------------------------------------------------ validator claims
\* The create command succeeded: there is a rendered project.
Rendered == Len(log) >= 1 /\ log[1].what = "create" /\ log[1].ok

\* Positions of the build-tool invocations in the log.
MakeRuns == {i \in 1..Len(log) : log[i].what \in {"make_syntax", "make_target"}}

\* The text of a file holds "{{" or "}}".
ContainsMarker(text) ==
    /\ text # NoFile
    /\ \E l \in 1..Len(text) : \E p \in 1..(Len(text[l]) - 1) :
         \/ text[l][p] = "{" /\ text[l][p + 1] = "{"
         \/ text[l][p] = "}" /\ text[l][p + 1] = "}"

\* The distinct names in makefile_targets.
Extracted == {makefileTargets[i] : i \in 1..Len(makefileTargets)}

\* The extraction step has run.
ExtractionDone == vpc = "targets" \/ (vpc = "done" /\ syntaxExit = 0)

\* C4: a target is dry-run only after the Makefile was located, the
\* placeholder scan passed and the syntax dry-run passed, in that order; and
\* 'passed' is reported only if the Makefile exists, holds no placeholder
\* marker, the syntax dry-run exited zero and every extracted target was
\* dry-run and exited zero.
C4_OrderAndPassed ==
    /\ \A i \in 1..Len(log) :
         log[i].what = "make_target" =>
           \E a \in 1..Len(log) : \E b \in 1..Len(log) : \E c \in 1..Len(log) :
             /\ a < b /\ b < c /\ c < i
             /\ log[a].what = "exists" /\ log[a].ok
             /\ log[b].what = "scan" /\ log[b].ok
             /\ log[c].what = "make_syntax" /\ log[c].ok
    /\ status = "passed" =>
         /\ makefile # NoFile
         /\ ~ContainsMarker(makefile)
         /\ syntaxExit = 0
         /\ \A t \in Extracted :
              /\ t \notin broken
              /\ \E i \in 1..Len(log) : log[i] = Event("make_target", t, TRUE)

C4_Witness ==
    /\ status = "passed"
    /\ Cardinality(Extracted) >= 2
    /\ Cardinality(MakeRuns) >= 3

\* C5: the step that fails is the last operation of the run: at every moment
\* a failed step in the log is its last entry, the run is over, its status is
\* 'failed' (never 'passed') and the error has been re-raised to the caller.
C5_FailFast ==
    /\ \A i \in 1..Len(log) :
         ~log[i].ok =>
           /\ i = Len(log)
           /\ vpc = "done"
           /\ status = "failed"
           /\ error # NoError
    /\ status = "failed" => (vpc = "done" /\ error # NoError)

\* a target dry-run failed while other targets were still to be tried
C5_Witness ==
    /\ status = "failed"
    /\ error.detail = "target"
    /\ DOMAIN todo # {}
    /\ Len(log) >= 1
    /\ ~log[Len(log)].ok

\* C6: when the Makefile exists, passes the scan and the syntax dry-run, and
\* exactly one extracted target's dry-run exits non-zero, then whatever the
\* iteration order the run fails with an error naming exactly that target.
C6_NamesBrokenTarget ==
    (/\ vpc = "done"
     /\ Rendered
     /\ makefile # NoFile
     /\ ~ContainsMarker(makefile)
     /\ syntaxExit = 0
     /\ Cardinality(Extracted \cap broken) = 1)
    => /\ status = "failed"
       /\ error.type = "ValueError"
       /\ error.detail = "target"
       /\ {error.target} = Extracted \cap broken

\* the valid target was dry-run first, then the broken one
C6_Witness ==
    /\ vpc = "done"
    /\ Cardinality(Extracted) >= 2
    /\ Cardinality(Extracted \cap broken) = 1
    /\ \E i \in 1..Len(log) : log[i].what = "make_target" /\ log[i].ok
    /\ error.detail = "target"
    /\ error.target \in broken

\* Names at the start of a line: one or more class characters immediately
\* followed by a colon.
IsLeadingName(text, l, k) ==
    /\ k >= 1
    /\ k < Len(text[l])
    /\ \A i \in 1..k : text[l][i] \in Lower \cup Upper \cup Digits \cup {"_", "-"}
    /\ text[l][k + 1] = ":"

DeclaredNames(text) ==
    UNION { {SubSeq(text[l], 1, k) : k \in {j \in 1..Len(text[l]) :
                                              IsLeadingName(text, l, j)}} :
            l \in 1..Len(text) }

\* C7: the extracted set is exactly the line-leading names followed by a
\* colon, minus all, clean and distclean; no extracted name begins with '.'
\* or contains '%'; the example install:, test:, .PHONY:, %.o:, all: yields
\* exactly {install, test}.
C7_Extraction ==
    ExtractionDone =>
      /\ Extracted = DeclaredNames(makefile) \ {Name_all, Name_clean, Name_distclean}
      /\ \A t \in Extracted :
           /\ t[1] # "."
           /\ \A i \in 1..Len(t) : t[i] # "%"
      /\ makefile = ExampleMakefile => Extracted = {<<"i", "n", "s", "t", "a", "l", "l">>, <<"t", "e", "s", "t">>}

C7_Witness ==
    /\ vpc = "targets"
    /\ makefile = ExampleMakefile
    /\ Extracted = {<<"i", "n", "s", "t", "a", "l", "l">>, <<"t", "e", "s", "t">>}

C9_BeforeBuildTool ==
    (Rendered /\ makefile # NoFile /\ ContainsMarker(makefile))
    => /\ MakeRuns = {}
       /\ vpc = "done" =>
            /\ status = "failed"
            /\ error.type = "ValueError"
            /\ error.detail = "placeholder"

\* the Makefile holds only the closing marker
C9_Witness ==
    /\ vpc = "done"
    /\ makefile = <<L_closing>>
    /\ error.detail = "placeholder"
    /\ Len(log) = 3

\* C10: when the rendered project has no Makefile, no placeholder scan and no
\* build-tool invocation is made and the run ends with the missing-file error.
C10_MissingMakefile ==
    (Rendered /\ makefile = NoFile)
    => /\ MakeRuns = {}
       /\ \A i \in 1..Len(log) : log[i].what # "scan"
       /\ vpc = "done" =>
            /\ status = "failed"
            /\ error.type = "FileNotFoundError"
            /\ error.detail = "missing"

C10_Witness ==
    /\ vpc = "done"
    /\ Rendered
    /\ makefile = NoFile
    /\ error.type = "FileNotFoundError"
    /\ Len(log) = 2

\* Positions of the per-target dry-runs of target t in the log.
DryRunsOf(t) ==
    {i \in 1..Len(log) : log[i].what = "make_target" /\ log[i].target = t}

\* C11: in a run that passes, every distinct extracted target has been
\* dry-run in exactly one build-tool invocation of its own, also when its
\* name was matched on several lines, and nothing else has been dry-run.
C11_EachTargetOnce ==
    status = "passed" =>
      /\ \A t \in Extracted : Cardinality(DryRunsOf(t)) = 1
      /\ \A i \in 1..Len(log) :
           log[i].what = "make_target" => log[i].target \in Extracted

\* a target matched on two lines, and another one
C11_Witness ==
    /\ status = "passed"
    /\ Len(makefileTargets) = 3
    /\ Cardinality(Extracted) = 2

\* C12 as claimed: when the run is over, every extracted target has been
\* dry-run, also those that were still to come when a dry-run failed.
C12_RemainingStillRun ==
    (vpc = "done" /\ ExtractionDone) =>
      \A t \in Extracted : DryRunsOf(t) # {}

\* C12 as amended: a target dry-run that exits non-zero is the last
\* build-tool invocation of the run; the run ends there with the error naming
\* that target, and the targets not yet iterated are never dry-run.
C12_FailureSkipsRest ==
    \A i \in 1..Len(log) :
      (log[i].what = "make_target" /\ ~log[i].ok) =>
        /\ i = Len(log)
        /\ vpc = "done"
        /\ error.detail = "target"
        /\ error.target = log[i].target
        /\ \A t \in DOMAIN todo : DryRunsOf(t) = {}

\* the first of two targets failed, the second was never dry-run
C12_Witness ==
    /\ vpc = "done"
    /\ error.detail = "target"
    /\ Cardinality(Extracted) = 2
    /\ Cardinality(DOMAIN todo) = 1
    /\ \A t \in DOMAIN todo : DryRunsOf(t) = {}
    /\ Cardinality(MakeRuns) = 2

\* The first k characters of the line are the target of a rule: a name
\* followed by the colon of a rule, not by the ':=' or '::=' of a variable
\* assignment.
IsRuleName(line, k) ==
    /\ k >= 1
    /\ k < Len(line)
    /\ \A i \in 1..k : line[i] \in Lower \cup Upper \cup Digits \cup {"_", "-"}
    /\ line[k + 1] = ":"
    /\ ~(k + 2 <= Len(line) /\ line[k + 2] = "=")
    /\ ~(k + 3 <= Len(line) /\ line[k + 2] = ":" /\ line[k + 3] = "=")

\* The names of the rules the Makefile declares.
RuleNames(text) ==
    UNION { {SubSeq(text[l], 1, k) : k \in {j \in 1..Len(text[l]) :
                                              IsRuleName(text[l], j)}} :
            l \in 1..Len(text) }

\* C24: every extracted target is the name of a rule the Makefile declares,
\* and only such names are passed to a per-target dry-run: the name of a
\* line-leading variable assignment NAME:=value or NAME::=value is neither
\* extracted nor dry-run.
C24_OnlyRuleNames ==
    ExtractionDone =>
      /\ Extracted \subseteq RuleNames(makefile)
      /\ \A i \in 1..Len(log) :
           log[i].what = "make_target" => log[i].target \in RuleNames(makefile)

\* =========================================================================
\* GeminiSession: community/the_race_assistant/app/server.py
\* =========================================================================

\* ---- values receive_json() can return (parsed JSON) ---------------------
Missing == "<missing>"

SetupOf(run, user) == [run_id |-> run, user_id |-> user]

NoSetup == SetupOf(Missing, Missing)

\* a parsed JSON value: its Python type, the keys of a dict (the items of a
\* list), the value under 'setup' of a dict, the characters of a str
Data(type, keys, setup, text) ==
    [type |-> type, keys |-> keys, setup |-> setup, text |-> text]

NoData == Data("none", {}, NoSetup, <<>>)

SetupChars == <<"s", "e", "t", "u", "p">>

M_realtime == Data("dict", {"realtimeInput"}, NoSetup, <<>>)
M_content == Data("dict", {"clientContent"}, NoSetup, <<>>)
M_setup == Data("dict", {"setup"}, SetupOf("r1", "u1"), <<>>)
M_setup_realtime ==
    Data("dict", {"setup", "realtimeInput"}, SetupOf("r2", "u2"), <<>>)
M_other == Data("dict", {"other"}, NoSetup, <<>>)
M_setup_no_run == Data("dict", {"setup"}, SetupOf(Missing, "u2"), <<>>)
M_setup_no_user == Data("dict", {"setup"}, SetupOf("r2", Missing), <<>>)
M_list == Data("list", {"other"}, NoSetup, <<>>)
M_list_setup == Data("list", {"setup"}, NoSetup, <<>>)
M_number == Data("int", {}, NoSetup, <<>>)
M_null == Data("NoneType", {}, NoSetup, <<>>)
M_string == Data("str", {}, NoSetup, SetupChars)

ClientMsgs ==
    {M_realtime, M_content, M_setup, M_setup_realtime, M_other,
     M_setup_no_run, M_setup_no_user, M_list, M_list_setup, M_number,
     M_null, M_string}

\* json.dumps(data): the text that json.loads turns back into data
json_dumps(data) == [json |-> data]

\* ---- receive_from_client ------------------------------------------------
\* setup-first ordering of the branches: an object carrying 'setup' is never
\* forwarded
SetupTakenFirst(data) ==
    /\ data.type = "dict"
    /\ "setup" \notin data.keys
    /\ ("realtimeInput" \in data.keys \/ "clientContent" \in data.keys)

\* line 53-55: isinstance(data, dict) and ("realtimeInput" in data or
\* "clientContent" in data)
IsForwarded(data) ==
    /\ data.type = "dict"
    /\ ("realtimeInput" \in data.keys \/ "clientContent" \in data.keys)

\* line 57: "setup" in data, by the type of data
SetupIn(data) ==
    CASE data.type \in {"dict", "list"} ->
            IF "setup" \in data.keys THEN "yes" ELSE "no"
      [] data.type = "str" ->
            IF Contains(<<data.text>>, SetupChars) THEN "yes" ELSE "no"
      [] OTHER -> "TypeError"

\* line 58-59: the exception of data["setup"]["run_id"] and
\* data["setup"]["user_id"], if any, and whether run_id was assigned before it
SetupLookup(data) ==
    CASE data.type # "dict" -> [exc |-> "TypeError", run |-> FALSE]
      [] data.setup.run_id = Missing -> [exc |-> "KeyError", run |-> FALSE]
      [] data.setup.user_id = Missing -> [exc |-> "KeyError", run |-> TRUE]
      [] OTHER -> [exc |-> "none", run |-> TRUE]

\* a loop without the finally clause
FinallyWithoutCancel(requested) == requested

\* line 73-74: finally: timer_task.cancel()
Finally(requested) == TRUE

\* line 66-74: an exception breaks the loop and the finally clause runs
Break(exc) ==
    /\ cpc' = "exited"
    /\ cexit' = exc
    /\ cancelRequested' = Finally(cancelRequested)

\* line 47-48: the timer task is created, then the loop starts
ClientStart ==
    /\ cpc = "start"
    /\ cpc' = "receiving"
    /\ tpc' = "ready"
    /\ UNCHANGED <<now, lastModelTime, tokenCount, runId, userId, sessionOpen,
                   cexit, lastMsg, rcvCount, fwdCount, lastFwd, unexpected,
                   waitCount, sleepUntil, cancelRequested, prompts, gpc>>
    /\ UNCHANGED pendingReport
    /\ UNCHANGED <<notRelay, retryVars, toolVars>>

\* line 52-65: one value from the client is handled
ClientReceive ==
    /\ cpc = "receiving"
    /\ rcvCount < MaxClientMsgs
    /\ \E data \in ClientMsgs :
        /\ lastMsg' = data
        /\ rcvCount' = rcvCount + 1
        /\ IF IsForwarded(data)
           THEN IF sessionOpen
                THEN /\ fwdCount' = fwdCount + 1
                     /\ lastFwd' = json_dumps(data)
                     /\ UNCHANGED <<runId, userId, unexpected, cpc, cexit,
                                    cancelRequested>>
                ELSE /\ Break("ConnectionClosedError")
                     /\ UNCHANGED <<fwdCount, lastFwd, runId, userId,
                                    unexpected>>
           ELSE CASE SetupIn(data) = "TypeError" ->
                     /\ Break("TypeError")
                     /\ UNCHANGED <<fwdCount, lastFwd, runId, userId,
                                    unexpected>>
                  [] SetupIn(data) = "yes" ->
                     /\ runId' = IF SetupLookup(data).run
                                 THEN data.setup.run_id ELSE runId
                     /\ IF SetupLookup(data).exc = "none"
                        THEN /\ userId' = data.setup.user_id
                             /\ UNCHANGED <<cpc, cexit, cancelRequested>>
                        ELSE /\ Break(SetupLookup(data).exc)
                             /\ UNCHANGED userId
                     /\ UNCHANGED <<fwdCount, lastFwd, unexpected>>
                  [] SetupIn(data) = "no" ->
                     /\ unexpected' = unexpected + 1
                     /\ UNCHANGED <<fwdCount, lastFwd, runId, userId, cpc,
                                    cexit, cancelRequested>>
    /\ UNCHANGED <<now, lastModelTime, tokenCount, sessionOpen, tpc,
                   waitCount, sleepUntil, prompts, gpc>>
    /\ UNCHANGED pendingReport
    /\ UNCHANGED <<notRelay, retryVars, toolVars>>

\* line 52, 66-72: receive_json() raises because the client has gone
ClientDisconnects ==
    /\ cpc = "receiving"
    /\ Break("WebSocketDisconnect")
    /\ UNCHANGED <<now, lastModelTime, tokenCount, runId, userId, sessionOpen,
                   lastMsg, rcvCount, fwdCount, lastFwd, unexpected, tpc,
                   waitCount, sleepUntil, prompts, gpc>>
    /\ UNCHANGED pendingReport
    /\ UNCHANGED <<notRelay, retryVars, toolVars>>

\* ---- send_continue_prompt -----------------------------------------------
BaseWaitMs == 1000
MsPerToken == 40
TickMs == BaseWaitMs
MaxTime == MaxTicks * TickMs

\* the wait of the comment at line 96: 0.25 s per token
WaitTimeQuarterSecond(count) == BaseWaitMs + (count * 250)

\* line 97-98: wait_time = base_wait_time + (last_audio_token_count * 0.040)
WaitTime(count) == BaseWaitMs + (count * MsPerToken)

\* a comparison that also sends when the two are equal
AtLeast(elapsed, wait) == elapsed >= wait

\* line 107: time_since_last_message > wait_time
ShouldSend(elapsed, wait) == elapsed > wait

\* a count the model has reported and no wait has begun with yet
Reported(count) == [fresh |-> TRUE, count |-> count]

\* the report once a wait has begun after it
Taken(report) == [fresh |-> FALSE, count |-> report.count]

\* line 96-99: the count is read, the wait computed, the sleep started
TimerBeginWait ==
    /\ tpc = "ready"
    /\ ~cancelRequested
    /\ waitCount' = tokenCount
    /\ sleepUntil' = now + WaitTime(tokenCount)
    /\ tpc' = "sleeping"
    /\ pendingReport' = Taken(pendingReport)
    /\ UNCHANGED <<now, lastModelTime, tokenCount, runId, userId, sessionOpen,
                   cpc, cexit, lastMsg, rcvCount, fwdCount, lastFwd,
                   unexpected, cancelRequested, prompts, gpc>>
    /\ UNCHANGED <<notRelay, retryVars, toolVars>>

\* line 101-113, 116-118: the sleep is over; the prompt is sent or skipped; a
\* send on a closed session raises and the error is logged
TimerWake ==
    /\ tpc = "sleeping"
    /\ ~cancelRequested
    /\ now >= sleepUntil
    /\ IF ShouldSend(now - lastModelTime, WaitTime(waitCount)) /\ sessionOpen
       THEN /\ prompts' = prompts + 1
            /\ tpc' = "sending"
       ELSE /\ tpc' = "ready"
            /\ UNCHANGED prompts
    /\ UNCHANGED <<now, lastModelTime, tokenCount, runId, userId, sessionOpen,
                   cpc, cexit, lastMsg, rcvCount, fwdCount, lastFwd,
                   unexpected, waitCount, sleepUntil, cancelRequested, gpc>>
    /\ UNCHANGED pendingReport
    /\ UNCHANGED <<notRelay, retryVars, toolVars>>

\* line 109-111: the send returns and the count is reset
TimerSendReturns ==
    /\ tpc = "sending"
    /\ ~cancelRequested
    /\ tokenCount' = 0
    /\ tpc' = "ready"
    /\ UNCHANGED <<now, lastModelTime, runId, userId, sessionOpen, cpc, cexit,
                   lastMsg, rcvCount, fwdCount, lastFwd, unexpected, waitCount,
                   sleepUntil, cancelRequested, prompts, gpc>>
    /\ UNCHANGED pendingReport
    /\ UNCHANGED <<notRelay, retryVars, toolVars>>

\* line 114-115: CancelledError is raised at the task's await and breaks its
\* loop
TimerCancelled ==
    /\ cancelRequested
    /\ tpc \in {"ready", "sleeping", "sending"}
    /\ tpc' = "stopped"
    /\ UNCHANGED <<now, lastModelTime, tokenCount, runId, userId, sessionOpen,
                   cpc, cexit, lastMsg, rcvCount, fwdCount, lastFwd,
                   unexpected, waitCount, sleepUntil, cancelRequested, prompts,
                   gpc>>
    /\ UNCHANGED pendingReport
    /\ UNCHANGED <<notRelay, retryVars, toolVars>>

\* ---- receive_from_gemini ------------------------------------------------
TokenCounts == {25, 50}

Detail(modality, hasCount, count) ==
    [modality |-> modality, hasCount |-> hasCount, tokenCount |-> count]

Raw(usage, details) == [usageMetadata |-> usage, details |-> details]

ModelMsgs ==
    {Raw(FALSE, <<>>), Raw(TRUE, <<>>),
     Raw(TRUE, <<Detail("TEXT", TRUE, 25)>>),
     Raw(TRUE, <<Detail("AUDIO", FALSE, 0)>>),
     Raw(TRUE, <<Detail("AUDIO", TRUE, 50), Detail("AUDIO", TRUE, 25)>>)}
    \cup {Raw(TRUE, <<Detail("AUDIO", TRUE, n)>>) : n \in TokenCounts}

\* line 129-134: the count of the last AUDIO detail, 0 when it has no
\* tokenCount; the old count when there is no AUDIO detail
RECURSIVE AudioTokenCount(_, _)
AudioTokenCount(details, count) ==
    IF details = <<>>
    THEN count
    ELSE AudioTokenCount(
             Tail(details),
             IF Head(details).modality = "AUDIO"
             THEN (IF Head(details).hasCount
                   THEN Head(details).tokenCount ELSE 0)
             ELSE count)

\* line 129-133: the message carries an audio token count
ReportsAudio(raw) ==
    /\ raw.usageMetadata
    /\ \E i \in 1..Len(raw.details) : raw.details[i].modality = "AUDIO"

\* the client's socket is closed: receive_json() has raised on it
ClientGone == cpc = "exited" /\ cexit = "WebSocketDisconnect"

\* line 121-134: one message of the model is relayed to the client
GeminiMessage ==
    /\ gpc = "running"
    /\ sessionOpen
    /\ \E raw \in ModelMsgs :
        /\ lastModelTime' = now
        /\ IF ClientGone
           THEN /\ gpc' = "raised"
                /\ UNCHANGED <<tokenCount, pendingReport>>
           ELSE /\ tokenCount' =
                       IF raw.usageMetadata
                       THEN AudioTokenCount(raw.details, tokenCount)
                       ELSE tokenCount
                /\ pendingReport' =
                       IF ReportsAudio(raw)
                       THEN Reported(AudioTokenCount(raw.details, tokenCount))
                       ELSE pendingReport
                /\ UNCHANGED gpc
    /\ UNCHANGED <<now, runId, userId, sessionOpen, cpc, cexit, lastMsg,
                   rcvCount, fwdCount, lastFwd, unexpected, tpc, waitCount,
                   sleepUntil, cancelRequested, prompts>>
    /\ UNCHANGED <<notRelay, retryVars, toolVars>>

\* line 121: recv() raises ConnectionClosedError, the model session is closed
ModelCloses ==
    /\ gpc = "running"
    /\ sessionOpen
    /\ sessionOpen' = FALSE
    /\ gpc' = "raised"
    /\ UNCHANGED <<now, lastModelTime, tokenCount, runId, userId, cpc, cexit,
                   lastMsg, rcvCount, fwdCount, lastFwd, unexpected, tpc,
                   waitCount, sleepUntil, cancelRequested, prompts>>
    /\ UNCHANGED pendingReport
    /\ UNCHANGED <<notRelay, retryVars, toolVars>>

\* the event loop's clock advances
Tick ==
    /\ now < MaxTime
    /\ now' = now + TickMs
    /\ UNCHANGED <<lastModelTime, tokenCount, runId, userId, sessionOpen, cpc,
                   cexit, lastMsg, rcvCount, fwdCount, lastFwd, unexpected,
                   tpc, waitCount, sleepUntil, cancelRequested, prompts, gpc>>
    /\ UNCHANGED pendingReport
    /\ UNCHANGED <<notRelay, retryVars, toolVars>>

ClientNext ==
    \/ ClientStart
    \/ ClientReceive
    \/ ClientDisconnects
    \/ ModelCloses
    \/ TimerCancelled

TimerNext ==
    \/ ClientStart
    \/ ClientReceive
    \/ ClientDisconnects
    \/ TimerBeginWait
    \/ TimerWake
    \/ TimerSendReturns
    \/ TimerCancelled
    \/ GeminiMessage
    \/ ModelCloses
    \/ Tick

\* line 31-43: GeminiSession.__init__
InitSession ==
    /\ now = 0
    /\ lastModelTime = 0
    /\ tokenCount = 0
    /\ runId = "n/a"
    /\ userId = "n/a"
    /\ sessionOpen = TRUE
    /\ cpc = "start"
    /\ cexit = "none"
    /\ lastMsg = NoData
    /\ rcvCount = 0
    /\ fwdCount = 0
    /\ lastFwd = json_dumps(NoData)
    /\ unexpected = 0
    /\ tpc = "none"
    /\ waitCount = 0
    /\ sleepUntil = 0
    /\ cancelRequested = FALSE
    /\ prompts = 0
    /\ gpc = "running"
    /\ pendingReport = Taken(Reported(0))

\* ---- claims about the client receive loop -------------------------------

\* The value is a JSON object.
IsObject(d) == d.type = "dict"

\* The object carries 'realtimeInput' or 'clientContent'.
CarriesInput(d) == {"realtimeInput", "clientContent"} \cap d.keys # {}

\* A 'setup' message: an object with 'setup' holding run_id and user_id, and
\* no input for the model.
IsSetupMessage(d) ==
    /\ IsObject(d)
    /\ ~CarriesInput(d)
    /\ "setup" \in d.keys
    /\ d.setup.run_id # Missing
    /\ d.setup.user_id # Missing

\* C17: a received JSON object carrying 'realtimeInput' or 'clientContent' is
\* sent once, unchanged, to the (open) model session; a 'setup' message is
\* not sent on and run_id and user_id become the ones it holds; any other
\* JSON object is sent nowhere and leaves run_id and user_id as they were.
C17_ForwardOrSetup ==
    [][rcvCount' = rcvCount + 1 =>
         /\ (IsObject(lastMsg') /\ CarriesInput(lastMsg') /\ sessionOpen) =>
              /\ fwdCount' = fwdCount + 1
              /\ lastFwd'.json = lastMsg'
         /\ IsSetupMessage(lastMsg') =>
              /\ fwdCount' = fwdCount
              /\ lastFwd' = lastFwd
              /\ runId' = lastMsg'.setup.run_id
              /\ userId' = lastMsg'.setup.user_id
         /\ (/\ IsObject(lastMsg')
             /\ ~CarriesInput(lastMsg')
             /\ "setup" \notin lastMsg'.keys) =>
              /\ fwdCount' = fwdCount
              /\ lastFwd' = lastFwd
              /\ runId' = runId
              /\ userId' = userId]_vars

\* An object carrying both 'setup' and 'realtimeInput' has been forwarded,
\* then a 'setup' message has set the two identifiers.
C17_Witness ==
    /\ rcvCount = 2
    /\ fwdCount = 1
    /\ lastFwd.json = M_setup_realtime
    /\ lastMsg = M_setup
    /\ runId = "r1"
    /\ userId = "u1"

\* C20: an unexpected client message (a JSON value that is not an object, or
\* a 'setup' object lacking run_id or user_id) does not end the client
\* receive loop; only a closed connection ends it.
C20_OnlyCloseEndsLoop ==
    cpc = "exited" => cexit \in {"WebSocketDisconnect", "ConnectionClosedError"}

\* ---- claims about the keep-alive timer ----------------------------------

C23_ReportedCountUsed ==
    [][(tpc = "ready" /\ tpc' = "sleeping" /\ pendingReport.fresh) =>
         /\ waitCount' = pendingReport.count
         /\ sleepUntil' = now + 1000 + (40 * pendingReport.count)]_vars

\* C18: once receive_from_client has exited, whatever ended it, no further
\* 'continue' prompt is sent to the model session.
C18_NoPromptAfterExit ==
    [][cpc = "exited" => prompts' = prompts]_vars

\* receive_from_client has exited on an error while its timer was asleep, the
\* wait is over, the model has been silent for longer than the wait, and the
\* timer has not stopped yet.
C18_Witness ==
    /\ cpc = "exited"
    /\ cexit = "TypeError"
    /\ tpc = "sleeping"
    /\ sessionOpen
    /\ now >= sleepUntil
    /\ now - lastModelTime > WaitTime(waitCount)

\* =========================================================================
\* get_connect_and_run_callable: the retry wrapper around connect_and_run
\* =========================================================================
MaxTries == 10

ConnectionClosedError == "ConnectionClosedError"

OtherError == "OtherError"

Returned == "returned"

\* what an attempt can end with
AttemptErrors == {ConnectionClosedError, OtherError}

\* a wrapper that retries on every exception
RetriedOnAny(exc) == exc \in AttemptErrors

\* line 201-202: backoff.on_exception(backoff.expo, ConnectionClosedError, ...)
Retried(exc) == exc = ConnectionClosedError

\* line 202: max_tries=10
MaxTriesExceeded(n) == n = MaxTries

\* line 194-203: the attempt numbered n has raised exc; the wrapper gives up
\* and re-raises, or calls on_backoff (whose send_json raises when the client
\* has gone) and sleeps before the next attempt
EndAttempt(exc, n) ==
    /\ ends' = Append(ends, exc)
    /\ IF Retried(exc) /\ ~MaxTriesExceeded(n)
       THEN IF clientOpen
            THEN /\ retryMsgs' = retryMsgs + 1
                 /\ rpc' = "waiting"
                 /\ UNCHANGED raised
            ELSE /\ rpc' = "raised"
                 /\ raised' = OtherError
                 /\ UNCHANGED retryMsgs
       ELSE /\ rpc' = "raised"
            /\ raised' = exc
            /\ UNCHANGED retryMsgs

\* line 213-216: gather returns once both loops have returned
GatherReturns ==
    /\ ends' = Append(ends, Returned)
    /\ rpc' = "returned"
    /\ UNCHANGED <<retryMsgs, raised>>

\* line 204-216: an attempt begins; connect raises, or the session is entered,
\* the ready status is sent to the client and both loops are started
AttemptStarts ==
    /\ rpc \in {"idle", "waiting"}
    /\ tries' = tries + 1
    /\ \E outcome \in {"ok"} \cup AttemptErrors :
        IF outcome = "ok" /\ clientOpen
        THEN /\ rpc' = "running"
             /\ curClient' = "alive"
             /\ curGemini' = "running"
             /\ timers' = timers + 1
             /\ UNCHANGED <<ends, retryMsgs, raised>>
        ELSE /\ EndAttempt(IF outcome = "ok" THEN OtherError ELSE outcome,
                           tries + 1)
             /\ UNCHANGED <<curClient, curGemini, timers>>
    /\ UNCHANGED <<clientOpen, staleClients, cancelPending>>
    /\ UNCHANGED <<notRelay, sessVars, toolVars>>

\* line 121, 213-216: receive_from_gemini raises; gather propagates the
\* exception at once and leaves the other loop running
GeminiRaises ==
    /\ rpc = "running"
    /\ curGemini = "running"
    /\ \E exc \in AttemptErrors : EndAttempt(exc, tries)
    /\ curGemini' = "none"
    /\ curClient' = "none"
    /\ staleClients' = IF curClient = "alive"
                       THEN staleClients + 1 ELSE staleClients
    /\ UNCHANGED <<tries, clientOpen, timers, cancelPending>>
    /\ UNCHANGED <<notRelay, sessVars, toolVars>>

\* line 121: recv() returns an empty result and receive_from_gemini returns
GeminiReturns ==
    /\ rpc = "running"
    /\ curGemini = "running"
    /\ curGemini' = "returned"
    /\ IF curClient = "exited"
       THEN GatherReturns
       ELSE UNCHANGED <<ends, rpc, retryMsgs, raised>>
    /\ UNCHANGED <<tries, clientOpen, curClient, staleClients, timers,
                   cancelPending>>
    /\ UNCHANGED <<notRelay, sessVars, toolVars>>

\* line 66-74: the running attempt's receive_from_client breaks out of its
\* loop and cancels its timer
CurClientExits ==
    /\ rpc = "running"
    /\ curClient = "alive"
    /\ curClient' = "exited"
    /\ cancelPending' = cancelPending + 1
    /\ IF curGemini = "returned"
       THEN GatherReturns
       ELSE UNCHANGED <<ends, rpc, retryMsgs, raised>>
    /\ UNCHANGED <<tries, clientOpen, curGemini, staleClients, timers>>
    /\ UNCHANGED <<notRelay, sessVars, toolVars>>

\* line 66-74: a receive_from_client left behind by an earlier attempt breaks
\* out of its loop (its forward to the closed session raises, or the client
\* has gone) and cancels its timer
StaleClientExits ==
    /\ staleClients > 0
    /\ staleClients' = staleClients - 1
    /\ cancelPending' = cancelPending + 1
    /\ UNCHANGED <<tries, rpc, ends, retryMsgs, raised, clientOpen, curClient,
                   curGemini, timers>>
    /\ UNCHANGED <<notRelay, sessVars, toolVars>>

\* line 114-115: a cancelled timer task stops
StaleTimerStops ==
    /\ cancelPending > 0
    /\ cancelPending' = cancelPending - 1
    /\ timers' = timers - 1
    /\ UNCHANGED <<tries, rpc, ends, retryMsgs, raised, clientOpen, curClient,
                   curGemini, staleClients>>
    /\ UNCHANGED <<notRelay, sessVars, toolVars>>

\* the client closes its websocket
ClientCloses ==
    /\ clientOpen
    /\ clientOpen' = FALSE
    /\ UNCHANGED <<tries, rpc, ends, retryMsgs, raised, curClient, curGemini,
                   staleClients, timers, cancelPending>>
    /\ UNCHANGED <<notRelay, sessVars, toolVars>>

RetryNext ==
    \/ AttemptStarts
    \/ GeminiRaises
    \/ GeminiReturns
    \/ CurClientExits
    \/ StaleClientExits
    \/ StaleTimerStops
    \/ ClientCloses

\* line 221-226: websocket_endpoint has accepted the client
InitRetry ==
    /\ tries = 0
    /\ rpc = "idle"
    /\ ends = <<>>
    /\ retryMsgs = 0
    /\ raised = "none"
    /\ clientOpen = TRUE
    /\ curClient = "none"
    /\ curGemini = "none"
    /\ staleClients = 0
    /\ timers = 0
    /\ cancelPending = 0

\* ---- claims about the retry wrapper -------------------------------------

\* C15: for one client connection at most 10 attempts are made; a further
\* attempt follows an attempt only if that attempt ended with
\* ConnectionClosedError; exactly one 'retrying' status message has been sent
\* to the client before each retry, at most 9 in all; and when the 10th
\* attempt fails its error leaves the wrapper and no attempt follows.
C15_BoundedRetries ==
    /\ tries <= 10
    /\ retryMsgs <= 9
    /\ \A i \in 1..Len(ends) :
         i < tries => ends[i] = "ConnectionClosedError"
    /\ tries >= 1 =>
         retryMsgs = (IF rpc = "waiting" THEN tries ELSE tries - 1)
    /\ (Len(ends) = 10 /\ ends[10] # "returned") =>
         (rpc = "raised" /\ raised = ends[10] /\ tries = 10)

\* The 10th attempt has ended with ConnectionClosedError after 9 retries.
C15_Witness ==
    /\ tries = 10
    /\ Len(ends) = 10
    /\ retryMsgs = 9
    /\ rpc = "raised"
    /\ raised = "ConnectionClosedError"

\* receive_from_client loops alive, over all attempts.
AliveClientLoops == staleClients + (IF curClient = "alive" THEN 1 ELSE 0)

\* Timer tasks alive and not cancelled, over all attempts.
AliveTimers == timers - cancelPending

\* C19: across the attempts on one client websocket at most one
\* receive_from_client loop and at most one keep-alive timer are alive at any
\* time: those of an attempt ended by the model side have stopped before the
\* next attempt starts reading from the client.
C19_OneLoopAtATime ==
    /\ AliveClientLoops <= 1
    /\ AliveTimers <= 1

\* =========================================================================
\* GeminiSession._handle_tool_call
\* =========================================================================
NoneName == "<None>"

\* app/agent.py line 67: tool_functions, each with its required keywords
tool_functions == {"get_wikipedia_info"}

Keywords(func) == {"query"}

ToolNames == {"get_wikipedia_info", "lookup", "", NoneName}

ToolIds == {"id1", "id2"}

\* fc.args: None, or a dict with these keys
NoneArgs == [isNone |-> TRUE, keys |-> {}]

ArgsOf(keys) == [isNone |-> FALSE, keys |-> keys]

ToolArgs == {NoneArgs, ArgsOf({"query"}), ArgsOf({"topic"})}

FunctionCalls == [name : ToolNames, id : ToolIds, args : ToolArgs]

SeqsUpTo(S, n) == UNION {[1..k -> S] : k \in 0..n}

\* tool_call.function_calls: None, or a list of function calls
NoCalls == [isNone |-> TRUE, calls |-> <<>>]

ToolCalls ==
    {NoCalls}
    \cup {[isNone |-> FALSE, calls |-> c] : c \in SeqsUpTo(FunctionCalls, MaxCalls)}

NoFunc == "<no func>"

\* line 143-147: _get_func
get_func(action_label) ==
    IF action_label = NoneName \/ action_label = ""
    THEN NoFunc
    ELSE IF action_label \in tool_functions THEN action_label ELSE NoFunc

\* line 164: args = fc.args if fc.args is not None else {}
CallKeys(args) == IF args.isNone THEN {} ELSE args.keys

\* line 167-172: func(**args) raises TypeError unless the keywords are the
\* function's parameters
CallRaises(func, args) == CallKeys(args) # Keywords(func)

\* line 174-178: the response built for one function call
FunctionResponse(fc) == [name |-> fc.name, id |-> fc.id]

\* line 137-141, 153-156: a tool call arrives and its task starts; without
\* function calls the task returns at once
ToolCallArrives ==
    /\ toolpc = "idle"
    /\ \E tc \in ToolCalls :
        /\ toolCall' = tc
        /\ toolpc' = IF tc.isNone THEN "done" ELSE "running"
    /\ UNCHANGED <<handled, responses>>
    /\ UNCHANGED <<notRelay, sessVars, retryVars>>

\* line 158-180: one function call of the loop
HandleFunctionCall ==
    /\ toolpc = "running"
    /\ handled < Len(toolCall.calls)
    /\ LET fc == toolCall.calls[handled + 1]
           func == get_func(fc.name)
       IN  IF func = NoFunc
           THEN /\ handled' = handled + 1
                /\ UNCHANGED <<toolpc, responses>>
           ELSE IF CallRaises(func, fc.args) \/ ~sessionOpen
                THEN /\ toolpc' = "raised"
                     /\ UNCHANGED <<handled, responses>>
                ELSE /\ responses' = Append(responses, FunctionResponse(fc))
                     /\ handled' = handled + 1
                     /\ UNCHANGED toolpc
    /\ UNCHANGED toolCall
    /\ UNCHANGED <<notRelay, sessVars, retryVars>>

\* line 158: the loop is over and the task returns
ToolLoopEnds ==
    /\ toolpc = "running"
    /\ handled = Len(toolCall.calls)
    /\ toolpc' = "done"
    /\ UNCHANGED <<toolCall, handled, responses>>
    /\ UNCHANGED <<notRelay, sessVars, retryVars>>

ToolNext ==
    \/ ToolCallArrives
    \/ HandleFunctionCall
    \/ ToolLoopEnds
    \/ ModelCloses

InitTool ==
    /\ toolCall = NoCalls
    /\ toolpc = "idle"
    /\ handled = 0
    /\ responses = <<>>

\* ---- claims about tool calls --------------------------------------------

\* The name is registered in tool_functions.
IsRegistered(fc) == fc.name = "get_wikipedia_info"

\* One response, with the call's name and id, for every call of the list
\* whose name is registered, in the order of the calls.
RECURSIVE ExpectedResponses(_)
ExpectedResponses(calls) ==
    IF calls = <<>>
    THEN <<>>
    ELSE (IF IsRegistered(Head(calls))
          THEN <<[name |-> Head(calls).name, id |-> Head(calls).id]>>
          ELSE <<>>) \o ExpectedResponses(Tail(calls))

\* C22: when the task of a tool call has ended (the session being open),
\* every function call whose name is registered has produced exactly one
\* response with its name and id, and the calls whose name is missing, empty
\* or unregistered have produced none and have stopped no other call.
C22_OneResponsePerCall ==
    (toolpc \in {"done", "raised"} /\ sessionOpen) =>
        responses = ExpectedResponses(toolCall.calls)

\* =========================================================================
Init == InitFetch /\ InitVal /\ InitSession /\ InitRetry /\ InitTool

FetchSpec == Init /\ [][FetchNext]_vars

ValidatorSpec == Init /\ [][ValNext]_vars

ClientSpec == Init /\ [][ClientNext]_vars

TimerSpec == Init /\ [][TimerNext]_vars

RetrySpec == Init /\ [][RetryNext]_vars

ToolSpec == Init /\ [][ToolNext]_vars

\* The steps the event loop is bound to run: a wrapper whose sleep is over
\* starts its next attempt, a receive_json() on a closed client websocket
\* raises, a cancelled timer task gets its CancelledError. What the client
\* and the model do (send, stay silent, close) is under no such obligation.
RetryFairness ==
    /\ WF_vars(AttemptStarts)
    /\ WF_vars(CurClientExits /\ ~clientOpen)
    /\ WF_vars(StaleClientExits /\ ~clientOpen)
    /\ WF_vars(StaleTimerStops)

RetryFairSpec == Init /\ [][RetryNext]_vars /\ RetryFairness

\* connect_and_run, awaited by websocket_endpoint, has returned or raised.
HandlerDone == rpc \in {"raised", "returned"}

\* C21: once the client has closed its connection while an attempt is
\* running, the handler eventually returns: it does not wait forever on the
\* model side.
C21_HandlerReturns ==
    (~clientOpen /\ rpc = "running") ~> HandlerDone

====
